---- MODULE Spec2Model ----
(***************************************************************************)
(* drone-passwordstate: plugin.Exec and its two helpers, getSecrets and    *)
(* outputToYaml (src/plugin/plugin.go).                                    *)
(*                                                                         *)
(* Go strings are modelled as sequences of one-character strings, so that  *)
(* trimming, concatenation, base64 encoding and the byte-wise overwrite of *)
(* the output file are computed the way the code computes them.            *)
(***************************************************************************)
EXTENDS Naturals, Sequences, FiniteSets

VARIABLES
    config,     \* Plugin.Config of the run (never assigned by Exec)
    server,     \* the password list the PasswordState API serves
    file,       \* content of the file at Config.OutputPath
    pc,         \* position of Exec: start, fetch, guard, write, done
    secrets,    \* the local `secrets` of Exec
    ret,        \* what Exec returned: "none" while running, "nil", or an error
    fetch,      \* how the GET of this run ended: "none", "ok" or "failed"
    httpCalls,  \* HTTP requests handed to the client in this run
    opens,      \* os.OpenFile calls in this run
    wrote,      \* the file was opened and written in this run
    writeErr,   \* what outputToYaml returned in this run ("none" if not called)
    before,     \* content of the file when this run started
    prev        \* how the previous run ended: [ran, wrote, file]

vars == <<config, server, file, pc, secrets, ret, fetch, httpCalls, opens,
          wrote, writeErr, before, prev>>

\* Longest password list the API serves in the model.
MaxRecords == 2

(***************************************************************************)
(* Strings                                                                 *)
(***************************************************************************)
Empty == << >>

YAML == <<"Y", "A", "M", "L">>
JSON == <<"J", "S", "O", "N">>

\* reflect.Value.String() of the zero Value (FieldByName of an unknown name).
InvalidValue ==
    <<"<", "i", "n", "v", "a", "l", "i", "d", " ", "V", "a", "l", "u", "e", ">">>

\* reflect.Value.String() of a Value of kind int.
IntValue == <<"<", "i", "n", "t", " ", "V", "a", "l", "u", "e", ">">>

HasPrefix(s, p) == Len(s) >= Len(p) /\ SubSeq(s, 1, Len(p)) = p

RECURSIVE TrimLeft(_)
TrimLeft(s) ==
    IF s # Empty /\ Head(s) = " " THEN TrimLeft(Tail(s)) ELSE s

RECURSIVE TrimRight(_)
TrimRight(s) ==
    IF s # Empty /\ s[Len(s)] = " " THEN TrimRight(SubSeq(s, 1, Len(s) - 1)) ELSE s

\* strings.Trim(s, " ")
Trim(s) == TrimRight(TrimLeft(s))

(***************************************************************************)
(* encoding/base64, StdEncoding (padded)                                   *)
(***************************************************************************)
B64Alphabet ==
    <<"A", "B", "C", "D", "E", "F", "G", "H", "I", "J", "K", "L", "M",
      "N", "O", "P", "Q", "R", "S", "T", "U", "V", "W", "X", "Y", "Z",
      "a", "b", "c", "d", "e", "f", "g", "h", "i", "j", "k", "l", "m",
      "n", "o", "p", "q", "r", "s", "t", "u", "v", "w", "x", "y", "z",
      "0", "1", "2", "3", "4", "5", "6", "7", "8", "9", "+", "/">>

\* []byte(value): the byte of each character the model's values are made of.
Ord(c) ==
    CASE c = " " -> 32
      [] c = "'" -> 39
      [] c = "@" -> 64
      [] c = "a" -> 97
      [] c = "b" -> 98
      [] c = "p" -> 112
      [] c = "s" -> 115
      [] c = "x" -> 120
      [] c = "y" -> 121

B64(i) == B64Alphabet[i + 1]

RECURSIVE EncodeBytes(_)
EncodeBytes(b) ==
    IF Len(b) = 0 THEN Empty
    ELSE IF Len(b) = 1 THEN
        <<B64(b[1] \div 4), B64((b[1] % 4) * 16), "=", "=">>
    ELSE IF Len(b) = 2 THEN
        <<B64(b[1] \div 4), B64((b[1] % 4) * 16 + b[2] \div 16),
          B64((b[2] % 16) * 4), "=">>
    ELSE
        <<B64(b[1] \div 4), B64((b[1] % 4) * 16 + b[2] \div 16),
          B64((b[2] % 16) * 4 + b[3] \div 64), B64(b[3] % 64)>>
        \o EncodeBytes(SubSeq(b, 4, Len(b)))

\* base64.StdEncoding.EncodeToString([]byte(value))
EncodeToString(value) == EncodeBytes([i \in 1..Len(value) |-> Ord(value[i])])

(***************************************************************************)
(* net/url: ParseRequestURI                                                *)
(***************************************************************************)
Letters == {"a", "h", "t", "p"}

\* url.getScheme: the scheme before the first ':', if the characters before
\* it are letters; [scheme, rest, err].
RECURSIVE getSchemeAt(_, _)
getSchemeAt(rawurl, i) ==
    IF i > Len(rawurl) THEN [scheme |-> Empty, rest |-> rawurl, err |-> FALSE]
    ELSE IF rawurl[i] \in Letters THEN getSchemeAt(rawurl, i + 1)
    ELSE IF rawurl[i] = ":" THEN
        IF i = 1 THEN [scheme |-> Empty, rest |-> Empty, err |-> TRUE]
        ELSE [scheme |-> SubSeq(rawurl, 1, i - 1),
              rest |-> SubSeq(rawurl, i + 1, Len(rawurl)), err |-> FALSE]
    ELSE [scheme |-> Empty, rest |-> rawurl, err |-> FALSE]

getScheme(rawurl) == getSchemeAt(rawurl, 1)

\* url.ParseRequestURI(rawurl) returns an error.  The raw URL is read as an
\* absolute URI or as an absolute path; the hosts and paths of the model hold
\* letters only, so authority and escape parsing never fail.
ParseRequestURIFails(rawurl) ==
    IF rawurl = Empty THEN TRUE
    ELSE IF rawurl = <<"*">> THEN FALSE
    ELSE LET s == getScheme(rawurl) IN
         IF s.err THEN TRUE
         ELSE IF ~HasPrefix(s.rest, <<"/">>) THEN s.scheme = Empty
         ELSE FALSE

(***************************************************************************)
(* Inputs                                                                  *)
(***************************************************************************)
HttpUrl == <<"h", "t", "t", "p", ":", "/", "/", "a">>

Endpoints == {Empty, <<"a">>, <<"/", "a">>, HttpUrl}

Titles == {Empty, <<"a">>, <<" ">>, InvalidValue}
Passwords == {Empty, <<"x">>, <<" ", "y">>}

Section == <<"s">>

\* The PasswordList records of the model: two of the string fields and the
\* numeric identifier.
PasswordList(id, title, password) ==
    [PasswordID |-> id, Title |-> title, Password |-> password]

Lists ==
    UNION {
        {[i \in 1..n |-> PasswordList(i, t[i], p[i])] :
            t \in [1..n -> Titles], p \in [1..n -> Passwords]}
        : n \in 0..MaxRecords}

Config(endpoint, key, id, keyField, valueField, encode, format, fail) ==
    [ApiEndpoint |-> endpoint, ApiKey |-> key, PasswordListId |-> id,
     KeyField |-> keyField, ValueField |-> valueField,
     EncodeSecrets |-> encode, OutputFormat |-> format,
     SectionName |-> Section, NoSecretsFail |-> fail]

\* Every combination of the validated parameters, with the extraction
\* options at their usual values ...
ConnectionConfigs ==
    {Config(e, k, id, "Title", "Password", FALSE, f, FALSE) :
        e \in Endpoints, k \in {Empty, <<"k">>}, id \in {0, 42},
        f \in {YAML, JSON}}

\* ... and every combination of the extraction and output options, with
\* parameters that pass the validation.
ExtractionConfigs ==
    {Config(HttpUrl, <<"k">>, 42, kf, vf, enc, YAML, fail) :
        kf \in {"Title", "PasswordID", "Nope"}, vf \in {"Password", "Nope"},
        enc \in BOOLEAN, fail \in BOOLEAN}

Configs == ConnectionConfigs \cup ExtractionConfigs

(***************************************************************************)
(* getSecrets                                                              *)
(***************************************************************************)
\* reflect.Indirect(reflect.ValueOf(password)).FieldByName(name).String():
\* the string of a string field, "<int Value>" for a field of kind int and
\* "<invalid Value>" when the struct has no field of that name.
FieldByNameString(password, name) ==
    IF name \in {"Title", "Password"} THEN password[name]
    ELSE IF name = "PasswordID" THEN IntValue
    ELSE InvalidValue

Secret(key, value) == [Key |-> key, Value |-> value]

\* A conversion that checks the key of a password and not its value.
RECURSIVE ConvertPasswordsKeyOnly(_, _, _)
ConvertPasswordsKeyOnly(passwords, keyField, valueField) ==
    IF passwords = Empty THEN Empty
    ELSE LET password == Head(passwords)
             key == FieldByNameString(password, keyField)
             value == FieldByNameString(password, valueField)
             rest == ConvertPasswordsKeyOnly(Tail(passwords), keyField, valueField)
         IN IF key = Empty \/ key = InvalidValue THEN rest
            ELSE <<Secret(key, value)>> \o rest

\* The loop over the retrieved passwords: a password whose key or value is
\* empty or "<invalid Value>" is skipped, the others are appended in order.
RECURSIVE ConvertPasswords(_, _, _)
ConvertPasswords(passwords, keyField, valueField) ==
    IF passwords = Empty THEN Empty
    ELSE LET password == Head(passwords)
             key == FieldByNameString(password, keyField)
             value == FieldByNameString(password, valueField)
             rest == ConvertPasswords(Tail(passwords), keyField, valueField)
         IN IF key = Empty \/ key = InvalidValue THEN rest
            ELSE IF value = Empty \/ value = InvalidValue THEN rest
            ELSE <<Secret(key, value)>> \o rest

\* A getSecrets that gives up with an error at the first password it cannot
\* convert.
getSecretsStrict(p, passwords, getFailed) ==
    IF getFailed THEN [secrets |-> Empty, err |-> "errFetch"]
    ELSE LET converted == ConvertPasswords(passwords, p.KeyField, p.ValueField)
         IN IF Len(converted) < Len(passwords)
            THEN [secrets |-> Empty, err |-> "errField"]
            ELSE [secrets |-> converted, err |-> "nil"]

\* getSecrets(p): `passwords` is the list the API answers with and getFailed
\* says that client.R().Get returned an error (transport failure, or a body
\* that does not deserialize).  Returns (secrets, err).
getSecrets(p, passwords, getFailed) ==
    IF getFailed THEN [secrets |-> Empty, err |-> "errFetch"]
    ELSE [secrets |-> ConvertPasswords(passwords, p.KeyField, p.ValueField),
          err |-> "nil"]

\* The outcomes of the GET: the client can only reach a server when the
\* endpoint carries the http scheme; any request can fail.
GetOutcomes(endpoint) ==
    IF getScheme(endpoint).scheme = <<"h", "t", "t", "p">>
    THEN {"ok", "failed"} ELSE {"failed"}

(***************************************************************************)
(* outputToYaml                                                            *)
(***************************************************************************)
\* An open that positions every write at the end of the file (O_APPEND).
OpenFileAppend(content) == [content |-> content, off |-> Len(content)]

\* os.OpenFile(filename, os.O_WRONLY|os.O_CREATE, 0644): the content is kept
\* (no O_TRUNC), a missing file is created empty, the offset is 0.
OpenFile(content) == [content |-> content, off |-> 0]

\* f.WriteString(s): s replaces the bytes at the offset, extending the file
\* where it runs past the end; the offset moves behind s.
WriteString(f, s) ==
    [content |-> SubSeq(f.content, 1, f.off) \o s
                 \o SubSeq(f.content, f.off + Len(s) + 1, Len(f.content)),
     off |-> f.off + Len(s)]

\* fmt.Sprintf("---\n%s:\n", section)
HeaderText(section) == <<"-", "-", "-", "\n">> \o section \o <<":", "\n">>

\* fmt.Sprintf("  %s: '%s'\n", key, value)
LineText(key, value) ==
    <<" ", " ">> \o key \o <<":", " ", "'">> \o value \o <<"'", "\n">>

\* The key written for a secret: trimmed.
WrittenKey(secret) == Trim(secret.Key)

\* The value written for a secret: trimmed, then encoded if asked.
WrittenValue(secret, encode) ==
    IF encode THEN EncodeToString(Trim(secret.Value)) ELSE Trim(secret.Value)

\* The loop over the secrets: one WriteString per secret.
RECURSIVE WriteSecrets(_, _, _)
WriteSecrets(f, encode, secs) ==
    IF secs = Empty THEN f
    ELSE WriteSecrets(
            WriteString(f, LineText(WrittenKey(Head(secs)),
                                    WrittenValue(Head(secs), encode))),
            encode, Tail(secs))

\* outputToYaml(filename, section, encode, secrets) on a file holding
\* `content`; openFailed says that os.OpenFile returned an error.  Returns
\* the content of the file afterwards and the error.
outputToYaml(content, section, encode, secs, openFailed) ==
    IF openFailed THEN [file |-> content, err |-> "errOpen"]
    ELSE [file |-> WriteSecrets(WriteString(OpenFile(content), HeaderText(section)),
                                encode, secs).content,
          err |-> "nil"]

\* What an earlier run with a longer password list left in the output file.
Stale ==
    HeaderText(Section)
    \o LineText(<<"b">>, <<"p", "a", "s", "s">>)
    \o LineText(<<"a">>, <<"x", "y">>)
    \o LineText(<<"p">>, <<"s", "y">>)

Files == {Empty, Stale}

(***************************************************************************)
(* Exec                                                                    *)
(***************************************************************************)
NoRun == [ran |-> FALSE, wrote |-> FALSE, file |-> Empty]

Init ==
    /\ config \in Configs
    /\ server \in Lists
    /\ file \in Files
    /\ pc = "start"
    /\ secrets = Empty
    /\ ret = "none"
    /\ fetch = "none"
    /\ httpCalls = 0
    /\ opens = 0
    /\ wrote = FALSE
    /\ writeErr = "none"
    /\ before = file
    /\ prev = NoRun

\* The error of the first violated check, "nil" when all pass.
Validate(c) ==
    IF ParseRequestURIFails(c.ApiEndpoint) THEN "errEndpoint"
    ELSE IF c.PasswordListId = 0 THEN "errListId"
    ELSE IF c.ApiKey = Empty THEN "errApiKey"
    ELSE IF c.OutputFormat # YAML THEN "errFormat"
    ELSE "nil"

\* Exec, "Validate the parameters".
ExecValidate ==
    /\ pc = "start"
    /\ IF Validate(config) # "nil"
       THEN /\ ret' = Validate(config)
            /\ pc' = "done"
       ELSE /\ ret' = ret
            /\ pc' = "fetch"
    /\ UNCHANGED <<config, server, file, secrets, fetch, httpCalls, opens,
                   wrote, writeErr, before, prev>>

\* An Exec that logs the error of getSecrets and carries on.
ExecGetSecretsLenient ==
    /\ pc = "fetch"
    /\ \E outcome \in GetOutcomes(config.ApiEndpoint) :
        LET r == getSecrets(config, server, outcome = "failed") IN
        /\ secrets' = r.secrets
        /\ fetch' = outcome
        /\ httpCalls' = httpCalls + 1
        /\ ret' = ret
        /\ pc' = "guard"
    /\ UNCHANGED <<config, server, file, opens, wrote, writeErr, before, prev>>

\* Exec, "Retrieve the secrets from PasswordState".
ExecGetSecrets ==
    /\ pc = "fetch"
    /\ \E outcome \in GetOutcomes(config.ApiEndpoint) :
        LET r == getSecrets(config, server, outcome = "failed") IN
        /\ secrets' = r.secrets
        /\ fetch' = outcome
        /\ httpCalls' = httpCalls + 1
        /\ IF r.err # "nil"
           THEN /\ ret' = r.err
                /\ pc' = "done"
           ELSE /\ ret' = ret
                /\ pc' = "guard"
    /\ UNCHANGED <<config, server, file, opens, wrote, writeErr, before, prev>>

\* Exec, the NoSecretsFail check.
ExecNoSecretsFail ==
    /\ pc = "guard"
    /\ IF config.NoSecretsFail /\ Len(secrets) = 0
       THEN /\ ret' = "errNoSecrets"
            /\ pc' = "done"
       ELSE /\ ret' = ret
            /\ pc' = "write"
    /\ UNCHANGED <<config, server, file, secrets, fetch, httpCalls, opens,
                   wrote, writeErr, before, prev>>

\* Exec, "Save the secrets to file": the result of outputToYaml is dropped
\* and Exec returns nil.
ExecOutput ==
    /\ pc = "write"
    /\ IF config.OutputFormat = YAML
       THEN \E openFailed \in BOOLEAN :
            LET r == outputToYaml(file, config.SectionName,
                                  config.EncodeSecrets, secrets, openFailed) IN
            /\ file' = r.file
            /\ opens' = opens + 1
            /\ wrote' = ~openFailed
            /\ writeErr' = r.err
       ELSE UNCHANGED <<file, opens, wrote, writeErr>>
    /\ ret' = "nil"
    /\ pc' = "done"
    /\ UNCHANGED <<config, server, secrets, fetch, httpCalls, before, prev>>

\* The plugin is run again with the same configuration against the same
\* password list.
Rerun ==
    /\ pc = "done"
    /\ prev' = [ran |-> TRUE, wrote |-> wrote, file |-> file]
    /\ before' = file
    /\ pc' = "start"
    /\ secrets' = Empty
    /\ ret' = "none"
    /\ fetch' = "none"
    /\ httpCalls' = 0
    /\ opens' = 0
    /\ wrote' = FALSE
    /\ writeErr' = "none"
    /\ UNCHANGED <<config, server, file>>

Next ==
    \/ ExecValidate
    \/ ExecGetSecrets
    \/ ExecNoSecretsFail
    \/ ExecOutput
    \/ Rerun

Spec == Init /\ [][Next]_vars

TypeOK ==
    /\ pc \in {"start", "fetch", "guard", "write", "done"}
    /\ ret \in {"none", "nil", "errEndpoint", "errListId", "errApiKey",
                "errFormat", "errFetch", "errNoSecrets"}
    /\ fetch \in {"none", "ok", "failed"}
    /\ httpCalls \in 0..1
    /\ opens \in 0..1

\* The documented example: "p@ss" encodes to "cEBzcw==".
EncodeExample ==
    EncodeToString(<<"p", "@", "s", "s">>) = <<"c", "E", "B", "z", "c", "w", "=", "=">>

(***************************************************************************)
(* Properties                                                              *)
(***************************************************************************)
Done == pc = "done"

ValidationErrors == {"errEndpoint", "errListId", "errApiKey", "errFormat"}

IsError(r) == r \notin {"none", "nil"}

\* An absolute URL: a scheme, "//" and a host.
WellFormedAbsoluteURL(e) ==
    LET s == getScheme(e) IN
    /\ ~s.err
    /\ s.scheme # Empty
    /\ HasPrefix(s.rest, <<"/", "/">>)
    /\ Len(s.rest) > 2

InvalidConfiguration(c) ==
    \/ ~WellFormedAbsoluteURL(c.ApiEndpoint)
    \/ c.PasswordListId = 0
    \/ c.ApiKey = Empty
    \/ c.OutputFormat # YAML

\* C1: a run with an endpoint that is no well-formed absolute URL, a list
\* identifier of 0, an empty API key or a format other than YAML ends with a
\* validation error, without an HTTP request and without touching the file.
C1_ValidationRejects ==
    Done /\ InvalidConfiguration(config) =>
        /\ ret \in ValidationErrors
        /\ httpCalls = 0
        /\ opens = 0
        /\ file = before

HasField(name) == name \in {"Title", "Password", "PasswordID"}

\* The field exists on the record and holds something.
ResolvesNonEmpty(password, name) ==
    /\ HasField(name)
    /\ name \in {"Title", "Password"} => password[name] # Empty

\* The string the lookup yields is neither empty nor the text
\* "<invalid Value>".
ResolvesUsable(password, name) ==
    /\ FieldByNameString(password, name) # Empty
    /\ FieldByNameString(password, name) # InvalidValue

SecretOf(password, c) ==
    Secret(FieldByNameString(password, c.KeyField),
           FieldByNameString(password, c.ValueField))

SecretsOf(passwords, c) == [i \in 1..Len(passwords) |-> SecretOf(passwords[i], c)]

\* C2, as stated: the secrets are the records, in order, on which the key
\* field and the value field both resolve to a non-empty value.
C2_NonEmptySubsequence ==
    fetch = "ok" =>
        LET Included(password) ==
                /\ ResolvesNonEmpty(password, config.KeyField)
                /\ ResolvesNonEmpty(password, config.ValueField)
        IN secrets = SecretsOf(SelectSeq(server, Included), config)

\* C2, amended: the secrets are the records, in order, on which the key
\* field and the value field both resolve to a string that is neither empty
\* nor the text "<invalid Value>".
C2_UsableSubsequence ==
    fetch = "ok" =>
        LET Included(password) ==
                /\ ResolvesUsable(password, config.KeyField)
                /\ ResolvesUsable(password, config.ValueField)
        IN secrets = SecretsOf(SelectSeq(server, Included), config)

\* A record whose title is the text "<invalid Value>" was skipped and the
\* record after it was converted.
C2_Witness ==
    /\ fetch = "ok"
    /\ config.KeyField = "Title"
    /\ Len(server) = 2
    /\ server[1].Title = InvalidValue
    /\ server[1].Password # Empty
    /\ Len(secrets) = 1
    /\ secrets[1] = SecretOf(server[2], config)

NoSecrets == config.NoSecretsFail /\ secrets = Empty

\* C3: after a successful fetch, Exec fails and leaves the file alone exactly
\* when NoSecretsFail is set and there are no secrets; otherwise it goes on
\* to the writer, and a written file for no secrets holds the header only.
C3_EmptyGuard ==
    Done /\ fetch = "ok" =>
        /\ (IsError(ret) /\ opens = 0 /\ file = before) <=> NoSecrets
        /\ ~NoSecrets => opens = 1
        /\ (secrets = Empty /\ wrote) => file = HeaderText(config.SectionName)

RECURSIVE Lines(_, _)
Lines(secs, encode) ==
    IF secs = Empty THEN Empty
    ELSE LineText(WrittenKey(Head(secs)), WrittenValue(Head(secs), encode))
         \o Lines(Tail(secs), encode)

Document(c, secs) == HeaderText(c.SectionName) \o Lines(secs, c.EncodeSecrets)

\* C4: after a successful write the file holds the header and one line per
\* secret, in order, and nothing else, whatever it held before.
C4_FreshContent ==
    Done /\ wrote => file = Document(config, secrets)

\* C5: a run whose output file could not be opened ends with an error.
C5_WriteErrorTerminal ==
    Done /\ writeErr = "errOpen" => IsError(ret)

\* C6: when the GET fails, getSecrets returns no secrets, Exec ends with that
\* error and the file is neither opened nor changed.
C6_FetchErrorPropagates ==
    fetch = "failed" =>
        /\ Done
        /\ ret = "errFetch"
        /\ secrets = Empty
        /\ opens = 0
        /\ ~wrote
        /\ file = before

\* The GET failed although the server holds passwords and the file holds
\* older content.
C6_Witness ==
    /\ fetch = "failed"
    /\ Done
    /\ server # Empty
    /\ file = Stale

\* C7: a run that wrote the file, right after a run that wrote it with the
\* same configuration and the same password list, leaves the same content.
C7_Idempotent ==
    (Done /\ wrote /\ prev.ran /\ prev.wrote) => file = prev.file

\* Two runs in a row wrote secrets over older, longer content.
C7_Witness ==
    /\ Done
    /\ wrote
    /\ prev.ran
    /\ prev.wrote
    /\ secrets # Empty
    /\ Len(file) > Len(Document(config, secrets))

(***************************************************************************)
(* Reading the file back: the block mapping a YAML decoder sees.           *)
(***************************************************************************)
IndexOf(t, c) ==
    IF \E i \in 1..Len(t) : t[i] = c
    THEN CHOOSE i \in 1..Len(t) : t[i] = c /\ \A j \in 1..(i - 1) : t[j] # c
    ELSE 0

\* The lines of a text; the last one may lack its line break.
RECURSIVE SplitLines(_)
SplitLines(t) ==
    IF t = Empty THEN << >>
    ELSE LET i == IndexOf(t, "\n") IN
         IF i = 0 THEN <<t>>
         ELSE <<SubSeq(t, 1, i - 1)>> \o SplitLines(SubSeq(t, i + 1, Len(t)))

\* A line "  key: 'value'" with a single-quoted scalar free of quotes.
IsEntry(l) ==
    LET i == IndexOf(l, ":") IN
    /\ HasPrefix(l, <<" ", " ">>)
    /\ i >= 3
    /\ Len(l) >= i + 3
    /\ SubSeq(l, i, i + 2) = <<":", " ", "'">>
    /\ l[Len(l)] = "'"
    /\ \A j \in (i + 3)..(Len(l) - 1) : l[j] # "'"

EntryKey(l) == SubSeq(l, 3, IndexOf(l, ":") - 1)

EntryValue(l) == SubSeq(l, IndexOf(l, ":") + 3, Len(l) - 1)

\* The text is a document whose root maps `section` to a block mapping.
DecodesToSection(text, section) ==
    LET lines == SplitLines(text) IN
    /\ Len(lines) >= 2
    /\ lines[1] = <<"-", "-", "-">>
    /\ lines[2] = section \o <<":">>
    /\ \A i \in 3..Len(lines) : IsEntry(lines[i])

\* The decoded mapping holds `key` with `value` (the last entry of a key
\* decides).
DecodedHas(text, key, value) ==
    LET lines == SplitLines(text)
        at == {i \in 3..Len(lines) : EntryKey(lines[i]) = key}
    IN /\ key # Empty
       /\ at # {}
       /\ \E i \in at : /\ \A j \in at : j <= i
                        /\ EntryValue(lines[i]) = value

\* C8: the written file decodes to a mapping from the section to a mapping
\* that holds, for each secret, its trimmed key with its original value
\* (base64 of the original value when encoding is on).
C8_RoundTrip ==
    Done /\ wrote =>
        /\ DecodesToSection(file, config.SectionName)
        /\ \A i \in 1..Len(secrets) :
            DecodedHas(file, Trim(secrets[i].Key),
                       IF config.EncodeSecrets
                       THEN EncodeToString(secrets[i].Value)
                       ELSE secrets[i].Value)

\* The passwords that lack the key or the value, or hold it empty.
Unresolved(password, c) ==
    \/ ~ResolvesNonEmpty(password, c.KeyField)
    \/ ~ResolvesNonEmpty(password, c.ValueField)

\* C9: after a successful fetch the records with a missing or empty key or
\* value are left out of the secrets, and the only error Exec can still end
\* with is the one for NoSecretsFail with no secrets at all: a skipped record
\* is never an error of its own.
C9_SkipsAreNotErrors ==
    fetch = "ok" =>
        /\ \A i \in 1..Len(secrets) : secrets[i].Key # Empty /\ secrets[i].Value # Empty
        /\ Len(secrets) <= Cardinality({i \in 1..Len(server) : ~Unresolved(server[i], config)})
        /\ Done => (ret = "nil" \/ (ret = "errNoSecrets" /\ NoSecrets))
        /\ Done /\ ~NoSecrets => ret = "nil"

\* A record with an empty title was skipped, another was written, and Exec
\* returned nil.
C9_Witness ==
    /\ fetch = "ok"
    /\ Done
    /\ ret = "nil"
    /\ wrote
    /\ config.KeyField = "Title"
    /\ \E i \in 1..Len(server) : server[i].Title = Empty
    /\ Len(secrets) = 1

\* C10: every line written for a secret has a non-empty key and, when
\* encoding is off, a non-empty value.
C10_WrittenNonEmpty ==
    Done /\ wrote =>
        \A i \in 1..Len(secrets) :
            /\ WrittenKey(secrets[i]) # Empty
            /\ ~config.EncodeSecrets => WrittenValue(secrets[i], FALSE) # Empty

====
